---- MODULE Spec2Model ----
(***************************************************************************)
(* A model of wolfd/jpeg-svg: the canonical Huffman table builder and      *)
(* decoder (huffman.py), the zig-zag block filler (zigzag.py) and the      *)
(* marker scanner with its DHT / DQT segment handlers (jpeg_parser.py,     *)
(* main.py).                                                               *)
(*                                                                         *)
(* Each component is a state machine over its own variables; the three     *)
(* specifications SpecHuffman, SpecZigzag and SpecScanner run one          *)
(* component each, and Spec runs any of them.                              *)
(***************************************************************************)
EXTENDS Integers, Sequences, FiniteSets, TLC

VARIABLES
    \* ---- huffman.py ----
    symbols_per_bit_length, \* Huffman.__init__ argument: counts per bit length
    symbols,                \* Huffman.__init__ argument: symbols per bit length
    root,                   \* Huffman.root, a nested list, as path -> node
    bit_length,             \* __init__ outer loop variable (enumerate from 1)
    sym_i,                  \* __init__ inner loop variable i
    hpc,                    \* position in __init__ / decode_bytes
    data,                   \* decode_bytes argument
    bit_pos,                \* number of bits pulled from bitstream(data)
    node,                   \* decode_bytes local: path of the current node
    out,                    \* symbols yielded by decode_bytes, in order
    msg,                    \* the symbol sequence the caller encoded into data
    encoded,                \* TRUE when data is the packed encoding of msg
    \* ---- zigzag.py ----
    zig,                    \* fill_zigzag locals, flat_table and block
    \* ---- jpeg_parser.py / main.py ----
    module,                 \* which module's get_next_marker is running
    stream,                 \* the bytes of file_
    pos,                    \* file_.tell()
    seek_position,          \* get_next_marker local: file_.tell() at entry
    int_marker_id,          \* get_next_marker local, -1 before any marker
    unknown,                \* the last call printed "Unknown marker"
    decoder_ran,            \* the last call invoked found_marker.decoder
    ret,                    \* value returned by the last call, -1 for None
    err,                    \* exception raised by the last call, "" for none
    spc,                    \* position in the scan loop
    calls                   \* number of get_next_marker calls made

hvars == <<symbols_per_bit_length, symbols, root, bit_length, sym_i, hpc,
           data, bit_pos, node, out, msg, encoded>>
zvars == <<zig>>
svars == <<module, stream, pos, seek_position, int_marker_id, unknown,
           decoder_ran, ret, err, spc, calls>>
vars == <<hvars, zvars, svars>>

(***************************************************************************)
(* Generic helpers.                                                        *)
(***************************************************************************)
RECURSIVE SumSeq(_)
SumSeq(s) == IF s = <<>> THEN 0 ELSE Head(s) + SumSeq(Tail(s))

RECURSIVE Flatten(_)
Flatten(ss) == IF ss = <<>> THEN <<>> ELSE Head(ss) \o Flatten(Tail(ss))

RECURSIVE Pow2(_)
Pow2(n) == IF n = 0 THEN 1 ELSE 2 * Pow2(n - 1)

SeqsUpTo(S, n) == UNION {[1..k -> S] : k \in 0..n}

\* Python's range(start, stop, -1) as a sequence: start, start-1, ..., stop+1.
RangeDown(start, stop) ==
    [k \in 1..(IF start > stop THEN start - stop ELSE 0) |-> start - k + 1]

(***************************************************************************)
(* huffman.py                                                              *)
(*                                                                         *)
(* A Node is an int (a leaf holding a symbol) or a list of Nodes.  The     *)
(* nested list self.root is the function from paths (sequences of child    *)
(* indices, <<>> for self.root itself) to ListNode or to the leaf's        *)
(* symbol.  list.append puts the new child at index len(list).             *)
(***************************************************************************)
ListNode == -1

EmptyRoot == (<<>> :> ListNode)

IsList(tree, p) == tree[p] = ListNode

NodeLen(tree, p) == Cardinality({b \in {0, 1} : Append(p, b) \in DOMAIN tree})

ListAppend(tree, p, v) == tree @@ (Append(p, NodeLen(tree, p)) :> v)

\* lines 37-38: if len(root) == i: root.append([])
EnsureChild(tree, p, i) ==
    IF NodeLen(tree, p) = i THEN ListAppend(tree, p, ListNode) ELSE tree

\* bits_from_lengths(root, symbol, bit_length): the list at path p is
\* mutated in place; the result is the return value with the tree as the
\* call leaves it.  Falling off the end of the for loop returns None, which
\* is falsy, as FALSE.
RECURSIVE bits_from_lengths(_, _, _, _)
RECURSIVE TryChild(_, _, _, _, _)
RECURSIVE AfterChild(_, _, _, _, _)

\* lines 36-40: the for loop over i in [0, 1], from i on
TryChild(tree, p, symbol, bl, i) ==
    IF i > 1 THEN [ret |-> FALSE, tree |-> tree]
    ELSE AfterChild(p, symbol, bl, i,
            bits_from_lengths(EnsureChild(tree, p, i), Append(p, i), symbol,
                              bl - 1))

\* lines 39-40: return True if the recursive call did, else go on
AfterChild(p, symbol, bl, i, r) ==
    IF r.ret THEN r ELSE TryChild(r.tree, p, symbol, bl, i + 1)

bits_from_lengths(tree, p, symbol, bl) ==
    IF ~IsList(tree, p) THEN [ret |-> FALSE, tree |-> tree]
    ELSE IF bl = 0 THEN
        IF NodeLen(tree, p) < 2
        THEN [ret |-> TRUE, tree |-> ListAppend(tree, p, symbol)]
        ELSE [ret |-> FALSE, tree |-> tree]
    ELSE TryChild(tree, p, symbol, bl, 0)

\* The body of __init__'s inner loop: the return value is dropped.
InsertSymbol(tree, syms, bl, i) ==
    bits_from_lengths(tree, <<>>, syms[bl][i], bl).tree

\* Huffman(symbols_per_bit_length, symbols).root: both loops run to the end.
RECURSIVE HuffmanFrom(_, _, _, _, _)
HuffmanFrom(tree, counts, syms, bl, i) ==
    IF bl > Len(counts) THEN tree
    ELSE IF i > counts[bl] THEN HuffmanFrom(tree, counts, syms, bl + 1, 1)
    ELSE HuffmanFrom(InsertSymbol(tree, syms, bl, i), counts, syms, bl, i + 1)

Huffman(counts, syms) == HuffmanFrom(EmptyRoot, counts, syms, 1, 1)

\* bitstream(data): for each byte, the bits at range(7, 0, -1).
BitIndices == RangeDown(7, 0)

ByteBits(byte) ==
    [k \in 1..Len(BitIndices) |-> (byte \div Pow2(BitIndices[k])) % 2]

RECURSIVE bitstream(_)
bitstream(d) == IF d = <<>> THEN <<>> ELSE ByteBits(Head(d)) \o bitstream(Tail(d))

\* One pass of decode_bytes' loop body on the current node and the next bit.
decode_step(tree, n, bit) ==
    IF ~IsList(tree, n) THEN [kind |-> "leaf", node |-> n, sym |-> -1]
    ELSE IF bit < NodeLen(tree, n) THEN
        LET child == Append(n, bit)
        IN  IF ~IsList(tree, child)
            THEN [kind |-> "yield", node |-> <<>>, sym |-> tree[child]]
            ELSE [kind |-> "descend", node |-> child, sym |-> -1]
    ELSE [kind |-> "incomplete", node |-> n, sym |-> -1]

(***************************************************************************)
(* The caller's side of a round trip: the canonical Huffman code of a      *)
(* table (codes of one length are consecutive, the first code of a length  *)
(* is the next free code of the previous length with a 0 appended), and    *)
(* the packing of a bit string into bytes, most significant bit first.     *)
(***************************************************************************)
RECURSIVE FirstCode(_, _)
FirstCode(counts, l) ==
    IF l = 1 THEN 0 ELSE 2 * (FirstCode(counts, l - 1) + counts[l - 1])

\* The table describes a prefix code: the codes of every length fit.
IsCanonical(counts) ==
    \A l \in 1..Len(counts) :
        counts[l] > 0 => FirstCode(counts, l) + counts[l] <= Pow2(l)

\* value in exactly width bits, most significant first
ToBits(value, width) ==
    [k \in 1..width |-> (value \div Pow2(width - k)) % 2]

\* the places <<l, k>> where symbol s is declared, and its code word
PlacesOf(syms, s) ==
    {lk \in UNION {{<<l, k>> : k \in 1..Len(syms[l])} : l \in 1..Len(syms)} :
        syms[lk[1]][lk[2]] = s}

CodeWord(counts, syms, s) ==
    LET lk == CHOOSE x \in PlacesOf(syms, s) : TRUE
    IN  ToBits(FirstCode(counts, lk[1]) + lk[2] - 1, lk[1])

RECURSIVE Encode(_, _, _)
Encode(counts, syms, m) ==
    IF m = <<>> THEN <<>>
    ELSE CodeWord(counts, syms, Head(m)) \o Encode(counts, syms, Tail(m))

RECURSIVE BitsValue(_)
BitsValue(b) ==
    IF b = <<>> THEN 0 ELSE 2 * BitsValue(SubSeq(b, 1, Len(b) - 1)) + b[Len(b)]

\* whole bytes only: Len(b) is a multiple of 8
PackBits(b) ==
    [k \in 1..(Len(b) \div 8) |-> BitsValue(SubSeq(b, 8 * k - 7, 8 * k))]

(***************************************************************************)
(* Inputs of the Huffman machine.                                          *)
(***************************************************************************)
MaxLen == 3      \* bit lengths in a table
MaxCount == 3    \* symbols declared at one bit length
MaxMsg == 4      \* symbols in an encoded message
MaxData == 2     \* bytes of raw decoder input

RawBytes == {0, 1, 165, 255}

\* the symbols of a table are numbered 0, 1, 2, ... in canonical order
TableSymbols(counts) ==
    [l \in 1..Len(counts) |->
        [k \in 1..counts[l] |-> SumSeq(SubSeq(counts, 1, l - 1)) + k - 1]]

Tables == UNION {[1..n -> 0..MaxCount] : n \in 1..MaxLen}

\* the first symbol declared at each bit length
MsgSymbols(syms) == {syms[l][1] : l \in {x \in 1..Len(syms) : syms[x] # <<>>}}

Messages(counts, syms) ==
    {m \in SeqsUpTo(MsgSymbols(syms), MaxMsg) :
        m # <<>> /\ Len(Encode(counts, syms, m)) % 8 = 0}

HuffIdle ==
    /\ symbols_per_bit_length = <<>>
    /\ symbols = <<>>
    /\ root = EmptyRoot
    /\ bit_length = 0
    /\ sym_i = 0
    /\ hpc = "idle"
    /\ data = <<>>
    /\ bit_pos = 0
    /\ node = <<>>
    /\ out = <<>>
    /\ msg = <<>>
    /\ encoded = FALSE

\* Huffman.__init__ entered: self.root = [], the outer loop at bit length 1.
InitHuffman ==
    /\ symbols_per_bit_length \in Tables
    /\ symbols = TableSymbols(symbols_per_bit_length)
    /\ root = EmptyRoot
    /\ bit_length = 1
    /\ sym_i = 1
    /\ hpc = "init"
    /\ data = <<>>
    /\ bit_pos = 0
    /\ node = <<>>
    /\ out = <<>>
    /\ msg = <<>>
    /\ encoded = FALSE

dvars == <<data, bit_pos, node, out, msg, encoded>>
tvars == <<symbols_per_bit_length, symbols>>

\* __init__, line 23: one call of bits_from_lengths
HuffInsert ==
    /\ hpc = "init"
    /\ bit_length <= Len(symbols_per_bit_length)
    /\ sym_i <= symbols_per_bit_length[bit_length]
    /\ root' = InsertSymbol(root, symbols, bit_length, sym_i)
    /\ sym_i' = sym_i + 1
    /\ UNCHANGED <<tvars, bit_length, hpc, dvars, zvars, svars>>

\* __init__, line 19: the inner loop is over, the next bit length
HuffNextLength ==
    /\ hpc = "init"
    /\ bit_length <= Len(symbols_per_bit_length)
    /\ sym_i > symbols_per_bit_length[bit_length]
    /\ bit_length' = bit_length + 1
    /\ sym_i' = 1
    /\ UNCHANGED <<tvars, root, hpc, dvars, zvars, svars>>

\* __init__ returns: the constructor raises nothing
HuffBuilt ==
    /\ hpc = "init"
    /\ bit_length > Len(symbols_per_bit_length)
    /\ hpc' = "built"
    /\ UNCHANGED <<tvars, root, bit_length, sym_i, dvars, zvars, svars>>

\* decode_bytes(data) is called on raw bytes
DecodeRaw ==
    /\ hpc = "built"
    /\ data' \in SeqsUpTo(RawBytes, MaxData)
    /\ msg' = <<>>
    /\ encoded' = FALSE
    /\ node' = <<>>
    /\ hpc' = "decoding"
    /\ UNCHANGED <<tvars, root, bit_length, sym_i, bit_pos, out, zvars, svars>>

\* decode_bytes(data) is called on the packed canonical encoding of a message
DecodeEncoded ==
    /\ hpc = "built"
    /\ IsCanonical(symbols_per_bit_length)
    /\ msg' \in Messages(symbols_per_bit_length, symbols)
    /\ data' = PackBits(Encode(symbols_per_bit_length, symbols, msg'))
    /\ encoded' = TRUE
    /\ node' = <<>>
    /\ hpc' = "decoding"
    /\ UNCHANGED <<tvars, root, bit_length, sym_i, bit_pos, out, zvars, svars>>

NextBit == bitstream(data)[bit_pos + 1]

HasBit == hpc = "decoding" /\ bit_pos < Len(bitstream(data))

\* decode_bytes, lines 54-55: the child is a list
DecodeDescend ==
    /\ HasBit
    /\ LET r == decode_step(root, node, NextBit)
       IN  /\ r.kind = "descend"
           /\ node' = r.node
    /\ bit_pos' = bit_pos + 1
    /\ UNCHANGED <<tvars, root, bit_length, sym_i, hpc, data, out, msg, encoded,
                   zvars, svars>>

\* decode_bytes, lines 56-58: the child is a leaf
DecodeYield ==
    /\ HasBit
    /\ LET r == decode_step(root, node, NextBit)
       IN  /\ r.kind = "yield"
           /\ node' = r.node
           /\ out' = Append(out, r.sym)
    /\ bit_pos' = bit_pos + 1
    /\ UNCHANGED <<tvars, root, bit_length, sym_i, hpc, data, msg, encoded,
                   zvars, svars>>

\* decode_bytes, lines 53 and 60: ValueError
DecodeRaise ==
    /\ HasBit
    /\ LET r == decode_step(root, node, NextBit)
       IN  /\ r.kind \in {"leaf", "incomplete"}
           /\ hpc' = r.kind
    /\ bit_pos' = bit_pos + 1
    /\ UNCHANGED <<tvars, root, bit_length, sym_i, data, node, out, msg, encoded,
                   zvars, svars>>

\* decode_bytes, line 51: bitstream(data) is exhausted
DecodeEnd ==
    /\ hpc = "decoding"
    /\ bit_pos = Len(bitstream(data))
    /\ hpc' = "decoded"
    /\ UNCHANGED <<tvars, root, bit_length, sym_i, dvars, zvars, svars>>

NextHuffman ==
    \/ HuffInsert
    \/ HuffNextLength
    \/ HuffBuilt
    \/ DecodeRaw
    \/ DecodeEncoded
    \/ DecodeDescend
    \/ DecodeYield
    \/ DecodeRaise
    \/ DecodeEnd


(***************************************************************************)
(* zigzag.py                                                               *)
(*                                                                         *)
(* zig holds fill_zigzag's arguments and locals: flat_table, the block     *)
(* (rows x cols, cells indexed from 0), i, j, di, dj, the number of values *)
(* pulled from flat_table, the number of diagonals finished, and the       *)
(* cells assigned by line 19 so far, in order.                             *)
(***************************************************************************)
BLOCK_SIDE_PX == 8

\* get_zero_block / np.zeros(shape)
ZeroBlock(rows, cols) == [c \in (0..rows - 1) \X (0..cols - 1) |-> 0]

ZigIdle ==
    [pc |-> "idle", flat_table |-> <<>>, rows |-> 0, cols |-> 0,
     block |-> << >>, i |-> 0, j |-> 0, di |-> 0, dj |-> 0,
     pulled |-> 0, diag |-> 0, order |-> <<>>]

\* fill_zigzag entered, lines 6-14
ZigStart(flat_table, rows, cols) ==
    [pc |-> "loop", flat_table |-> flat_table, rows |-> rows, cols |-> cols,
     block |-> ZeroBlock(rows, cols), i |-> 0, j |-> 0, di |-> -1, dj |-> 1,
     pulled |-> 0, diag |-> 0, order |-> <<>>]

\* ZigInLoop counting the diagonals of a square block of side rows
ZigInLoop_square(z) == z.pc = "loop" /\ z.diag < 2 * z.rows - 1

\* line 17: range(rows + cols - 1) has another diagonal
ZigInLoop(z) == z.pc = "loop" /\ z.diag < z.rows + z.cols - 1

\* line 18: the while condition
ZigInBounds(z) == z.i >= 0 /\ z.j >= 0 /\ z.i < z.rows /\ z.j < z.cols

\* lines 19-21: one pass of the while body
zig_write(z) ==
    [z EXCEPT !.block = [@ EXCEPT ![<<z.i, z.j>>] = z.flat_table[z.pulled + 1]],
              !.order = Append(@, <<z.i, z.j>>),
              !.pulled = @ + 1,
              !.i = @ + z.di,
              !.j = @ + z.dj]

\* zig_turn with the bottom row forgotten in the test of line 30
zig_turn_top_only(z) ==
    LET i1 == z.i - z.di
        j1 == z.j - z.dj
        right == i1 = 0 /\ j1 < z.cols - 1
    IN  [z EXCEPT !.di = -z.di,
                  !.dj = -z.dj,
                  !.i = IF right THEN i1 ELSE i1 + 1,
                  !.j = IF right THEN j1 + 1 ELSE j1,
                  !.diag = @ + 1]

\* lines 23-33: step back, swap the direction, move to the next diagonal
zig_turn(z) ==
    LET i1 == z.i - z.di
        j1 == z.j - z.dj
        right == (i1 = 0 \/ i1 = z.rows - 1) /\ j1 < z.cols - 1
    IN  [z EXCEPT !.di = -z.di,
                  !.dj = -z.dj,
                  !.i = IF right THEN i1 ELSE i1 + 1,
                  !.j = IF right THEN j1 + 1 ELSE j1,
                  !.diag = @ + 1]

\* one step of fill_zigzag; next() on an exhausted flat_table raises
\* StopIteration, which leaves fill_zigzag
zig_step(z) ==
    IF ~ZigInLoop(z) THEN [z EXCEPT !.pc = "done"]
    ELSE IF ZigInBounds(z) THEN
        IF z.pulled < Len(z.flat_table) THEN zig_write(z)
        ELSE [z EXCEPT !.pc = "StopIteration"]
    ELSE zig_turn(z)

RECURSIVE zig_run(_)
zig_run(z) == IF z.pc # "loop" THEN z ELSE zig_run(zig_step(z))

\* fill_zigzag(flat_table, block) on a zero block of the given shape
fill_zigzag(flat_table, rows, cols) == zig_run(ZigStart(flat_table, rows, cols))

(***************************************************************************)
(* Inputs of the zig-zag machine.                                          *)
(***************************************************************************)
MaxSide == 8     \* rows and columns of a block

\* the flat sequence 0, 1, ..., n - 1
FlatRange(n) == [k \in 1..n |-> k - 1]

FlatLens(rows, cols) ==
    {n \in {0, rows * cols - 1, rows * cols, rows * cols + 1} : n >= 0}

InitZigzag ==
    \E rows \in 1..MaxSide, cols \in 1..MaxSide :
        \E n \in FlatLens(rows, cols) :
            zig = ZigStart(FlatRange(n), rows, cols)

\* line 19
ZigWrite ==
    /\ ZigInLoop(zig)
    /\ ZigInBounds(zig)
    /\ zig.pulled < Len(zig.flat_table)
    /\ zig' = zig_step(zig)
    /\ UNCHANGED <<hvars, svars>>

\* line 19: next() raises StopIteration
ZigStop ==
    /\ ZigInLoop(zig)
    /\ ZigInBounds(zig)
    /\ zig.pulled >= Len(zig.flat_table)
    /\ zig' = zig_step(zig)
    /\ UNCHANGED <<hvars, svars>>

\* lines 23-33
ZigTurn ==
    /\ ZigInLoop(zig)
    /\ ~ZigInBounds(zig)
    /\ zig' = zig_step(zig)
    /\ UNCHANGED <<hvars, svars>>

\* the for loop is over: fill_zigzag returns
ZigReturn ==
    /\ zig.pc = "loop"
    /\ ~ZigInLoop(zig)
    /\ zig' = zig_step(zig)
    /\ UNCHANGED <<hvars, svars>>

NextZigzag ==
    \/ ZigWrite
    \/ ZigStop
    \/ ZigTurn
    \/ ZigReturn


(***************************************************************************)
(* jpeg_parser.py and main.py: the marker table.                           *)
(***************************************************************************)
\* "{}".format(n): the decimal digits of n
RECURSIVE DecDigits(_)
DecDigits(n) == IF n < 10 THEN <<n>> ELSE Append(DecDigits(n \div 10), n % 10)

\* int(text, 16) of a string of hexadecimal digits
RECURSIVE HexValue(_)
HexValue(digits) ==
    IF digits = <<>> THEN 0
    ELSE 16 * HexValue(SubSeq(digits, 1, Len(digits) - 1)) + digits[Len(digits)]

\* int("D{}".format(n), 16)
restart_marker_byte(n) == HexValue(<<13>> \o DecDigits(n))

\* int("E{}".format(n), 16)
app_marker_byte(n) == HexValue(<<14>> \o DecDigits(n))

Marker(short, name, decoder) ==
    [short |-> short, name |-> name, decoder |-> decoder]

\* the dict literal; main.py's copy has no decoders
StaticMarkers(mod) ==
    (216 :> Marker(<<"SOI">>, "Start Of Image", "None")) @@
    (192 :> Marker(<<"SOF0">>, "Start Of Frame (baseline DCT)", "None")) @@
    (194 :> Marker(<<"SOF2">>, "Start Of Frame (progressive DCT)", "None")) @@
    (196 :> Marker(<<"DHT">>, "Define Huffman Table(s)",
                   IF mod = "jpeg_parser" THEN "read_dht_header" ELSE "None")) @@
    (219 :> Marker(<<"DQT">>, "Define Quantization Table(s)",
                   IF mod = "jpeg_parser" THEN "read_dqt_header" ELSE "None")) @@
    (221 :> Marker(<<"DRI">>, "Define Restart Interval", "None")) @@
    (218 :> Marker(<<"SOS">>, "Start Of Scan", "None")) @@
    (254 :> Marker(<<"COM">>, "Comment", "None")) @@
    (217 :> Marker(<<"EOI">>, "End Of Image", "None"))

\* for n in range(8): the restart markers
RestartRange == 8

\* for n in range(8): the application markers
AppRange == 8

\* MARKER_LOOKUP[key] = value for n = from .. stop - 1, later keys overriding
RECURSIVE InsertRestart(_, _, _)
InsertRestart(table, n, stop) ==
    IF n >= stop THEN table
    ELSE InsertRestart(
            (restart_marker_byte(n) :> Marker(<<"RST", n>>, "Restart", "None"))
                @@ table,
            n + 1, stop)

RECURSIVE InsertApp(_, _, _)
InsertApp(table, n, stop) ==
    IF n >= stop THEN table
    ELSE InsertApp(
            (app_marker_byte(n) :>
                Marker(<<"APP", n>>, "Application-specific", "None")) @@ table,
            n + 1, stop)

\* the import with the loop over the application markers left out
ImportMarkers_no_app(mod) ==
    InsertRestart(StaticMarkers(mod), 0, RestartRange)

\* the module-level statements that fill the dict at import
ImportMarkers(mod) ==
    InsertApp(InsertRestart(StaticMarkers(mod), 0, RestartRange), 0, AppRange)

Modules == {"jpeg_parser", "main"}

\* MARKER_LOOKUP of each module, once imported
MARKER_LOOKUP == [mod \in Modules |-> ImportMarkers(mod)]

(***************************************************************************)
(* Reading file_: positions count bytes from 0, stream[pos + 1] is the     *)
(* byte at pos.                                                            *)
(***************************************************************************)
EmptyRead == -1    \* file_.read(1) == b""
NoneValue == -2    \* None

\* file_.read(n): the bytes left, at most n of them
FileRead(s, p, n) ==
    LET end == IF p + n <= Len(s) THEN p + n ELSE Len(s)
    IN  [bytes |-> SubSeq(s, p + 1, end), pos |-> IF end > p THEN end ELSE p]

\* file_.read(1) as one value
FileRead1(s, p) ==
    LET r == FileRead(s, p, 1)
    IN  [byte |-> IF r.bytes = <<>> THEN EmptyRead ELSE r.bytes[1], pos |-> r.pos]

\* unpack_from_file with a format of n bytes: struct.error on a short read
unpack_from_file(s, p, n) ==
    LET r == FileRead(s, p, n)
    IN  [ok |-> Len(r.bytes) = n, bytes |-> r.bytes, pos |-> r.pos]

\* struct's ">H" on two bytes
BigEndian16(b) == 256 * b[1] + b[2]

\* find_next_ff's while loop, entered with the byte just read
RECURSIVE find_ff_loop(_, _, _)
RECURSIVE AfterLoopRead(_, _)
find_ff_loop(s, byte, p) ==
    IF byte = 255 THEN FileRead1(s, p) ELSE AfterLoopRead(s, FileRead1(s, p))

\* lines 239-241
AfterLoopRead(s, r) ==
    IF r.byte = EmptyRead THEN [byte |-> NoneValue, pos |-> r.pos]
    ELSE find_ff_loop(s, r.byte, r.pos)

FirstRead(s, r) == find_ff_loop(s, r.byte, r.pos)

find_next_ff(s, p) == FirstRead(s, FileRead1(s, p))

\* get_next_marker's "while True": the marker identifier, or None at EOF
RECURSIVE find_marker(_, _)
RECURSIVE AfterFind(_, _)
find_marker(s, p) == AfterFind(s, find_next_ff(s, p))

\* AfterFind taking a stuffed 0x00 for a marker identifier
AfterFind_no_skip(s, m) == m

\* lines 246-249
AfterFind(s, m) ==
    IF m.byte = NoneValue THEN m
    ELSE IF m.byte # 0 THEN m
    ELSE find_marker(s, m.pos)

(***************************************************************************)
(* The segment handlers.  A handler's result: err is "" on a normal        *)
(* return, else the exception; pos is file_.tell() afterwards; tree and    *)
(* zz are the Huffman root and the block the handler printed.              *)
(***************************************************************************)
Handled(e, p, tree, zz) == [err |-> e, pos |-> p, tree |-> tree, zz |-> zz]

\* lines 136-137: the symbols of each count, while the reads succeed
RECURSIVE read_symbols(_, _, _, _, _)
RECURSIVE AfterSymbols(_, _, _, _, _)
read_symbols(s, p, counts, l, acc) ==
    IF l > Len(counts) THEN [ok |-> TRUE, symbols |-> acc, pos |-> p]
    ELSE AfterSymbols(s, counts, l, acc, unpack_from_file(s, p, counts[l]))

AfterSymbols(s, counts, l, acc, r) ==
    IF ~r.ok THEN [ok |-> FALSE, symbols |-> acc, pos |-> r.pos]
    ELSE read_symbols(s, r.pos, counts, l + 1, Append(acc, r.bytes))

\* lines 141-148: the table is built, then the length is checked
DhtBuilt(start_seek_position, length, p, tree) ==
    IF p - start_seek_position # length
    THEN Handled("NotImplementedError", p, tree, ZigIdle)
    ELSE Handled("", p, tree, ZigIdle)

\* lines 135-141
DhtSymbols(start_seek_position, length, counts, syms) ==
    IF ~syms.ok THEN Handled("struct.error", syms.pos, EmptyRoot, ZigIdle)
    ELSE DhtBuilt(start_seek_position, length, syms.pos,
                  Huffman(counts, syms.symbols))

\* lines 125-129
DhtCounted(s, start_seek_position, length, counts) ==
    IF ~counts.ok THEN Handled("struct.error", counts.pos, EmptyRoot, ZigIdle)
    ELSE IF SumSeq(counts.bytes) > 256
        THEN Handled("AssertionError", counts.pos, EmptyRoot, ZigIdle)
    ELSE DhtSymbols(start_seek_position, length, counts.bytes,
                    read_symbols(s, counts.pos, counts.bytes, 1, <<>>))

\* lines 106-120: unused_ht = (ht_information & 0b11100000) >> 5
DhtInformed(s, start_seek_position, length, info) ==
    IF ~info.ok THEN Handled("struct.error", info.pos, EmptyRoot, ZigIdle)
    ELSE IF info.bytes[1] \div 32 # 0
        THEN Handled("AssertionError", info.pos, EmptyRoot, ZigIdle)
    ELSE DhtCounted(s, start_seek_position, length,
                    unpack_from_file(s, info.pos, 16))

\* line 104
DhtMeasured(s, start_seek_position, len) ==
    IF ~len.ok THEN Handled("struct.error", len.pos, EmptyRoot, ZigIdle)
    ELSE DhtInformed(s, start_seek_position, BigEndian16(len.bytes),
                     unpack_from_file(s, len.pos, 1))

read_dht_header(s, p) == DhtMeasured(s, p, unpack_from_file(s, p, 2))

\* unpack of ">64H": big-endian 16-bit values
Words(bytes) ==
    [k \in 1..(Len(bytes) \div 2) |-> 256 * bytes[2 * k - 1] + bytes[2 * k]]

\* precision = ((1 << 4) - 1) & (qt_information >> 4)
Precision(qt_information) == (qt_information \div 16) % 16

\* line 168: assert bytes_left / (precision + 1) == 64, in true division
DqtLengthOk(length, precision) == length - 3 = 64 * (precision + 1)

\* lines 182-183
DqtFilled(p, zz) ==
    IF zz.pc # "done" THEN Handled(zz.pc, p, EmptyRoot, zz)
    ELSE Handled("", p, EmptyRoot, zz)

\* lines 174-182
DqtTable(precision, table) ==
    IF ~table.ok THEN Handled("struct.error", table.pos, EmptyRoot, ZigIdle)
    ELSE DqtFilled(table.pos,
            fill_zigzag(IF precision = 0 THEN table.bytes
                        ELSE Words(table.bytes),
                        BLOCK_SIDE_PX, BLOCK_SIDE_PX))

\* lines 159-178
DqtInformed(s, length, info) ==
    IF ~info.ok THEN Handled("struct.error", info.pos, EmptyRoot, ZigIdle)
    ELSE IF ~DqtLengthOk(length, Precision(info.bytes[1]))
        THEN Handled("AssertionError", info.pos, EmptyRoot, ZigIdle)
    ELSE DqtTable(Precision(info.bytes[1]),
            unpack_from_file(s, info.pos,
                IF Precision(info.bytes[1]) = 0
                THEN BLOCK_SIDE_PX * BLOCK_SIDE_PX
                ELSE 2 * BLOCK_SIDE_PX * BLOCK_SIDE_PX))

\* line 157
DqtMeasured(s, len) ==
    IF ~len.ok THEN Handled("struct.error", len.pos, EmptyRoot, ZigIdle)
    ELSE DqtInformed(s, BigEndian16(len.bytes), unpack_from_file(s, len.pos, 1))

read_dqt_header(s, p) == DqtMeasured(s, unpack_from_file(s, p, 2))

RunDecoder(decoder, s, p) ==
    IF decoder = "read_dht_header" THEN read_dht_header(s, p)
    ELSE IF decoder = "read_dqt_header" THEN read_dqt_header(s, p)
    ELSE Handled("", p, EmptyRoot, ZigIdle)

\* the value get_next_marker returns after a marker, line 266
ReturnedOffset(p) == p - 2

\* int_marker_id in MARKER_LOOKUP
IsKnown(mod, id) == id \in DOMAIN MARKER_LOOKUP[mod]

\* found_marker.decoder, "None" also for an unknown marker
DecoderOf(mod, id) ==
    IF IsKnown(mod, id) THEN MARKER_LOOKUP[mod][id].decoder ELSE "None"

\* lines 261-266: the decoder, if any, has run with result h
AfterDecoder(mod, id, h) ==
    IF h.err # "" THEN
        [kind |-> "raise", id |-> id, unknown |-> FALSE, ran |-> TRUE,
         err |-> h.err, ret |-> NoneValue, pos |-> h.pos,
         tree |-> h.tree, zz |-> h.zz]
    ELSE
        [kind |-> "offset", id |-> id, unknown |-> ~IsKnown(mod, id),
         ran |-> DecoderOf(mod, id) # "None", err |-> "",
         ret |-> ReturnedOffset(h.pos), pos |-> h.pos,
         tree |-> h.tree, zz |-> h.zz]

\* lines 246-262: the search is over with m; struct.unpack("B", b"") raises
AfterSearch(mod, s, m) ==
    IF m.byte = NoneValue THEN
        [kind |-> "None", id |-> -1, unknown |-> FALSE, ran |-> FALSE,
         err |-> "", ret |-> NoneValue, pos |-> m.pos,
         tree |-> EmptyRoot, zz |-> ZigIdle]
    ELSE IF m.byte = EmptyRead THEN
        [kind |-> "raise", id |-> -1, unknown |-> FALSE, ran |-> FALSE,
         err |-> "struct.error", ret |-> NoneValue, pos |-> m.pos,
         tree |-> EmptyRoot, zz |-> ZigIdle]
    ELSE AfterDecoder(mod, m.byte, RunDecoder(DecoderOf(mod, m.byte), s, m.pos))

\* One call of get_next_marker on file_ = (s, p) in module mod.
get_next_marker(mod, s, p) == AfterSearch(mod, s, find_marker(s, p))

(***************************************************************************)
(* Inputs of the scanner: a stream is a head of raw bytes, one segment     *)
(* (a marker, or a DHT / DQT segment, whole, cut short or with a wrong     *)
(* length field) and a tail.                                               *)
(***************************************************************************)
MaxHead == 2     \* raw bytes before the segment
MaxTail == 2     \* raw bytes after the segment

HeadBytes == {0, 1, 255}
TailBytes == {255, 217}

\* every code of the marker table, the other application codes, two more
MarkerCodes == DOMAIN MARKER_LOOKUP["jpeg_parser"] \cup (224..239) \cup {1, 255}

MarkerOnly == {<<255, c>> : c \in MarkerCodes}

\* a DHT segment: marker, length field, table information, 16 counts, symbols
DhtSegment(len, info, counts) ==
    <<255, 196, len \div 256, len % 256, info>>
        \o [l \in 1..16 |-> IF l <= Len(counts) THEN counts[l] ELSE 0]
        \o Flatten(TableSymbols(counts))

DhtLength(counts) == 2 + 1 + 16 + SumSeq(counts)

DhtCounts == {<<>>, <<1>>, <<0, 2>>, <<3>>, <<1, 1, 2>>}

DhtSegments ==
    {DhtSegment(DhtLength(c) + d, 0, c) : c \in DhtCounts, d \in {0, 1}}
        \cup {DhtSegment(DhtLength(<<1>>), info, <<1>>) : info \in {16, 32}}
        \cup {SubSeq(DhtSegment(DhtLength(<<0, 2>>), 0, <<0, 2>>), 1, n) :
                n \in {3, 4, 10, 22}}

\* a DQT segment: marker, length field, precision and id, n bytes of values
DqtSegment(len, info, n) ==
    <<255, 219, len \div 256, len % 256, info>> \o [k \in 1..n |-> k % 128]

DqtSegments ==
    {DqtSegment(67, 0, 64), DqtSegment(67, 1, 70), DqtSegment(67, 0, 30),
     DqtSegment(68, 0, 64), DqtSegment(131, 16, 128), DqtSegment(131, 17, 100),
     DqtSegment(67, 16, 128), DqtSegment(195, 32, 192),
     DqtSegment(195, 32, 128), DqtSegment(131, 0, 128)}

Segments == {<<>>} \cup MarkerOnly \cup DhtSegments \cup DqtSegments

Streams ==
    {h \o g \o t : h \in SeqsUpTo(HeadBytes, MaxHead), g \in Segments,
                   t \in SeqsUpTo(TailBytes, MaxTail)}

ScanIdle ==
    /\ module = "none"
    /\ stream = <<>>
    /\ pos = 0
    /\ seek_position = 0
    /\ int_marker_id = -1
    /\ unknown = FALSE
    /\ decoder_ran = FALSE
    /\ ret = NoneValue
    /\ err = ""
    /\ spc = "idle"
    /\ calls = 0

\* file_ is open at offset 0 and the scan loop is about to make its first call
InitScanner ==
    /\ module \in Modules
    /\ stream \in Streams
    /\ pos = 0
    /\ seek_position = 0
    /\ int_marker_id = -1
    /\ unknown = FALSE
    /\ decoder_ran = FALSE
    /\ ret = NoneValue
    /\ err = ""
    /\ spc = "scan"
    /\ calls = 0

\* what one call leaves behind, whatever its outcome
CallEffects(r) ==
    /\ seek_position' = pos
    /\ pos' = r.pos
    /\ int_marker_id' = r.id
    /\ unknown' = r.unknown
    /\ decoder_ran' = r.ran
    /\ ret' = r.ret
    /\ err' = r.err
    /\ calls' = calls + 1
    /\ root' = IF r.ran THEN r.tree ELSE root
    /\ zig' = IF r.ran THEN r.zz ELSE zig
    /\ UNCHANGED <<module, stream, tvars, bit_length, sym_i, hpc, dvars>>

\* a call with result r of the given kind, after which the loop is at next
ScanOutcome(r, kind, next) ==
    /\ r.kind = kind
    /\ CallEffects(r)
    /\ spc' = next

\* the call returns the offset of a marker: the loop goes round
ScanMarker ==
    /\ spc = "scan"
    /\ ScanOutcome(get_next_marker(module, stream, pos), "offset", "scan")

\* the call returns None: the loop breaks
ScanEnd ==
    /\ spc = "scan"
    /\ ScanOutcome(get_next_marker(module, stream, pos), "None", "done")

\* the call raises: the exception leaves the loop
ScanRaise ==
    /\ spc = "scan"
    /\ ScanOutcome(get_next_marker(module, stream, pos), "raise", "raised")

NextScanner ==
    \/ ScanMarker
    \/ ScanEnd
    \/ ScanRaise

(***************************************************************************)
(* Specifications.                                                         *)
(***************************************************************************)
InitH == InitHuffman /\ zig = ZigIdle /\ ScanIdle

InitZ == HuffIdle /\ InitZigzag /\ ScanIdle

InitS == HuffIdle /\ zig = ZigIdle /\ InitScanner

SpecHuffman == InitH /\ [][NextHuffman]_vars

SpecZigzag == InitZ /\ [][NextZigzag]_vars

SpecScanner == InitS /\ [][NextScanner]_vars

Init == InitH \/ InitZ \/ InitS

Next == NextHuffman \/ NextZigzag \/ NextScanner

Spec == Init /\ [][Next]_vars

(***************************************************************************)
(* Properties of the Huffman table builder and decoder (SpecHuffman).      *)
(***************************************************************************)
HuffmanDone == hpc \notin {"idle", "init"}

Leaves(tree) == {p \in DOMAIN tree : tree[p] # ListNode}

\* the symbols declared at bit length l
DeclaredAt(l) == {symbols[l][k] : k \in 1..Len(symbols[l])}

AllDeclared == UNION {DeclaredAt(l) : l \in 1..Len(symbols)}

\* C1: for a table that describes a canonical prefix code (at most 256
\* symbols, symbol lists as long as the counts say) the constructor returns
\* a tree with exactly sum(counts) leaves, each leaf at the depth equal to
\* the bit length its symbol was declared at.
C1_LeavesAtDeclaredDepth ==
    (/\ HuffmanDone
     /\ IsCanonical(symbols_per_bit_length)
     /\ SumSeq(symbols_per_bit_length) <= 256)
    => /\ Cardinality(Leaves(root)) = SumSeq(symbols_per_bit_length)
       /\ \A p \in Leaves(root) :
            /\ Len(p) \in 1..Len(symbols)
            /\ root[p] \in DeclaredAt(Len(p))

\* C2: round trip: a message encoded with the canonical code of a valid
\* table, packed into bytes most significant bit first and fed to
\* decode_bytes, is yielded back exactly, in order.
C2_RoundTrip ==
    (encoded /\ hpc \in {"decoded", "leaf", "incomplete"})
    => (hpc = "decoded" /\ out = msg)

\* C3: a table that declares more symbols at some bit length than there are
\* free slots at that depth makes the constructor fail; the constructor never
\* returns normally with a tree that lacks a declared symbol.
C3_OversubscribedFails ==
    HuffmanDone
    => /\ IsCanonical(symbols_per_bit_length)
       /\ AllDeclared \subseteq {root[p] : p \in Leaves(root)}

\* the bits of d, 8 per byte, bit 7 first down to bit 0
MsbFirstBits(d) ==
    [k \in 1..(8 * Len(d)) |->
        (d[((k - 1) \div 8) + 1] \div Pow2(7 - ((k - 1) % 8))) % 2]

\* C9: the bits decode_bytes walks the tree with are the bits of the input
\* bytes in order, 8 per byte, most significant first; n bytes supply
\* exactly 8 * n bits.
C9_EightBitsPerByte ==
    (hpc \in {"decoding", "decoded", "leaf", "incomplete"})
    => /\ SubSeq(bitstream(data), 1, bit_pos)
            = SubSeq(MsbFirstBits(data), 1, bit_pos)
       /\ hpc = "decoded" => bit_pos = 8 * Len(data)

(***************************************************************************)
(* Properties of fill_zigzag (SpecZigzag).                                 *)
(***************************************************************************)
\* The zig-zag sequence of the JPEG standard: the position in the scan of
\* the coefficient at row i, column j of an 8 x 8 block.
JpegZigzagIndex ==
    << << 0,  1,  5,  6, 14, 15, 27, 28>>,
       << 2,  4,  7, 13, 16, 26, 29, 42>>,
       << 3,  8, 12, 17, 25, 30, 41, 43>>,
       << 9, 11, 18, 24, 31, 40, 44, 53>>,
       <<10, 19, 23, 32, 39, 45, 52, 54>>,
       <<20, 22, 33, 38, 46, 51, 55, 60>>,
       <<21, 34, 37, 47, 50, 56, 59, 61>>,
       <<35, 36, 48, 49, 57, 58, 62, 63>> >>

\* fill_zigzag runs on the flat sequence 0..63 and an 8 x 8 block
Zig8x8 ==
    /\ zig.pc # "idle"
    /\ zig.rows = 8
    /\ zig.cols = 8
    /\ zig.flat_table = FlatRange(64)

\* C7: on the flat sequence 0..63 and an 8 x 8 block, fill_zigzag writes the
\* cells in the standard JPEG zig-zag order and returns with every cell
\* written: value 0 at (0,0), 1 at (0,1), 2 at (1,0), 5 at (0,2), 63 at (7,7).
C7_StandardZigzag ==
    Zig8x8
    => /\ zig.pc # "StopIteration"
       /\ \A k \in 1..Len(zig.order) :
            JpegZigzagIndex[zig.order[k][1] + 1][zig.order[k][2] + 1] = k - 1
       /\ zig.pc = "done" =>
            /\ Len(zig.order) = 64
            /\ \A i \in 0..7, j \in 0..7 :
                    zig.block[<<i, j>>] = JpegZigzagIndex[i + 1][j + 1]
            /\ zig.block[<<0, 0>>] = 0
            /\ zig.block[<<0, 1>>] = 1
            /\ zig.block[<<1, 0>>] = 2
            /\ zig.block[<<0, 2>>] = 5
            /\ zig.block[<<7, 7>>] = 63

C7_Witness == Zig8x8 /\ zig.pc = "done" /\ zig.block[<<7, 7>>] = 63

\* the cells of the block fill_zigzag was given
ZigCells == (0..zig.rows - 1) \X (0..zig.cols - 1)

\* the number of values fill_zigzag needs: rows * cols
ZigNeeded == zig.rows * zig.cols

\* C11: for every shape rows x cols (rows >= 1, cols >= 1, square or not),
\* fill_zigzag never writes a cell twice; given exactly rows * cols values it
\* does not fail, and when it returns it has written every cell exactly
\* once, consumed exactly rows * cols values, and each cell holds the value
\* pulled for it; given fewer than rows * cols values it never returns.
C11_EveryCellOnce ==
    zig.pc # "idle"
    => /\ zig.rows >= 1 /\ zig.cols >= 1
       /\ \A k \in 1..Len(zig.order) : zig.order[k] \in ZigCells
       /\ \A k, l \in 1..Len(zig.order) :
            zig.order[k] = zig.order[l] => k = l
       /\ zig.pulled = Len(zig.order)
       /\ Len(zig.flat_table) = ZigNeeded =>
            /\ zig.pc # "StopIteration"
            /\ zig.pc = "done" =>
                /\ zig.pulled = ZigNeeded
                /\ Len(zig.order) = ZigNeeded
                /\ {zig.order[k] : k \in 1..Len(zig.order)} = ZigCells
                /\ \A k \in 1..Len(zig.order) :
                        zig.block[zig.order[k]] = zig.flat_table[k]
       /\ Len(zig.flat_table) < ZigNeeded => zig.pc # "done"

\* a block that is not square was filled from exactly rows * cols values
C11_Witness ==
    /\ zig.pc = "done"
    /\ zig.rows = 3
    /\ zig.cols = 5
    /\ Len(zig.flat_table) = 15
    /\ Len(zig.order) = 15

(***************************************************************************)
(* Properties of the marker scanner (SpecScanner).                         *)
(***************************************************************************)
\* a marker starts at offset q: 0xFF, then a byte that is not 0x00
MarkerAt(s, q) == q + 2 <= Len(s) /\ s[q + 1] = 255 /\ s[q + 2] # 0

\* a stuffed 0xFF starts at offset q: 0xFF 0x00
StuffedAt(s, q) == q + 2 <= Len(s) /\ s[q + 1] = 255 /\ s[q + 2] = 0

HasMarker(s, from) == \E q \in from..Len(s) : MarkerAt(s, q)

\* the offsets from..to hold stuffed 0xFF 0x00 pairs and other data only
NoMarkerIn(s, from, to) == \A q \in from..to : ~MarkerAt(s, q)

\* the offset of the first 0xFF at or after from whose next byte is not 0x00
RECURSIVE FirstMarker(_, _)
FirstMarker(s, from) ==
    IF from >= Len(s) THEN Len(s)
    ELSE IF MarkerAt(s, from) THEN from
    ELSE FirstMarker(s, from + 1)

\* the last call returned an offset
Returned == calls > 0 /\ err = "" /\ ret # NoneValue

\* the last call found a marker (and returned, or raised in its decoder)
Found == calls > 0 /\ int_marker_id # -1

\* C4: the offset get_next_marker returns for a marker is the offset of the
\* 0xFF byte that introduces it, also when a DHT or DQT handler consumed the
\* segment before the call returned.
C4_OffsetOfMarker ==
    Returned => ret = FirstMarker(stream, seek_position)

\* C5: a segment handler that returns normally has consumed, counted from
\* the first byte of the length field, exactly the declared segment length.
C5_ConsumedIsDeclared ==
    (Returned /\ decoder_ran)
    => LET q == FirstMarker(stream, seek_position)
       IN  pos - (q + 2) = 256 * stream[q + 3] + stream[q + 4]

RestartCodes == 208..215
AppCodes == 224..239
AppCodesInTable == 224..231

ResolvesRestart(mod, code) ==
    /\ IsKnown(mod, code)
    /\ MARKER_LOOKUP[mod][code].short = <<"RST", code - 208>>
    /\ MARKER_LOOKUP[mod][code].name = "Restart"

ResolvesApp(mod, code) ==
    /\ IsKnown(mod, code)
    /\ MARKER_LOOKUP[mod][code].short = <<"APP", code - 224>>
    /\ MARKER_LOOKUP[mod][code].name = "Application-specific"

C8_StuffedBytesSkipped ==
    /\ Found
        => /\ int_marker_id # 0
           /\ MarkerAt(stream, FirstMarker(stream, seek_position))
           /\ int_marker_id = stream[FirstMarker(stream, seek_position) + 2]
           /\ ~decoder_ran
                => /\ ret = FirstMarker(stream, seek_position)
                   /\ pos = ret + 2
                   /\ NoMarkerIn(stream, seek_position, ret - 1)
    /\ (calls > 0 /\ err = "" /\ ret = NoneValue)
        => ~HasMarker(stream, seek_position)

C8_Witness ==
    /\ Returned
    /\ ~decoder_ran
    /\ ret = FirstMarker(stream, seek_position)
    /\ \E q \in seek_position..(ret - 2) : StuffedAt(stream, q)

\* the stream holds no DHT (0xFF 0xC4) and no DQT (0xFF 0xDB) marker
NoTableMarker(s) ==
    \A k \in 1..(Len(s) - 1) : ~(s[k] = 255 /\ s[k + 1] \in {196, 219})

\* C10: on a stream without DHT or DQT markers, whatever its last bytes are,
\* the scan loop ends with a call that returns None; no call raises because
\* the stream ended during the search.
C10_ScanEndsNormally ==
    NoTableMarker(stream) => spc # "raised"


====
